---- MODULE Spec2Model ----
(***************************************************************************)
(* Model of the infographics package: DonutStyle.generate (donuts.py),     *)
(* the colour progression (chart.py) and Canvas.add_graphic (canvas.py).   *)
(*                                                                         *)
(* Numbers.  A Python number is a record [fl, n, d]: the exact rational    *)
(* n/d (in lowest terms, d > 0) and whether Python holds it as a float.    *)
(* Float rounding is not modelled: arithmetic is exact.                    *)
(* Angles.  A radian value is held in units of pi, so pi is the number 1   *)
(* and degrees(x) is x * 180.  cos and sin are kept symbolic: the          *)
(* coordinate c + r*cos(a) is the record of c, r, "cos" and a.             *)
(* Strings.  The text of a number is the record [lit, n, d]: the literal   *)
(* of an int or of a float; other formatted text is the record of the      *)
(* values formatted into it.                                               *)
(* Spec draws charts with one style; CanvasSpec places drawables on a      *)
(* canvas; PageSpec places them and writes the canvas; ThreadSpec runs two *)
(* generate calls pass by pass; StyleSpec builds styles from keywords of   *)
(* any name.  Each leaves the variables of the others as they start.       *)
(***************************************************************************)
EXTENDS Integers, Sequences, FiniteSets, TLC

VARIABLES
    style,      \* the DonutStyle object the caller built
    data,       \* the caller's dataset
    first,      \* <<record>> of the first generate call on `data`, else <<>>
    last,       \* <<record>> of the most recent generate call, else <<>>
    frame,      \* <<locals>> of the most recent generate call as it left
    between,    \* a call on another dataset followed the first call on `data`
    heap,       \* the Element objects: heap[id] is the object with identity id
    page,       \* the Canvas object; page.svg is the id of its root element
    lastOp,     \* the most recent canvas operation, its arguments and outcome
    nadds,      \* add_graphic calls made so far
    keywords,   \* the keywords the style was constructed with
    calls,      \* calls[t]: the generate call thread t is in, or has left
    out         \* the file Canvas.write wrote, as it is on disk

donutVars == <<style, data, first, last, frame, between>>
canvasVars == <<heap, page, lastOp, nadds>>
restVars == <<keywords, calls, out>>
vars == <<donutVars, canvasVars, restVars>>

\* ------------------------------------------------------------------ bounds
MaxWedges == 3
MaxAdds == 2

\* ----------------------------------------------------------------- numbers
Abs(x) == IF x < 0 THEN -x ELSE x

RECURSIVE GCD(_, _)
GCD(a, b) == IF b = 0 THEN a ELSE GCD(b, a % b)

\* n/d in lowest terms; a zero denominator (no Python value) is kept as it is
Norm(fl, n, d) ==
    LET g == GCD(Abs(n), Abs(d))
        s == IF d < 0 THEN -1 ELSE 1
    IN  IF g = 0 THEN [fl |-> fl, n |-> 0, d |-> 0]
        ELSE [fl |-> fl, n |-> (s * n) \div g, d |-> (s * d) \div g]

PyInt(n) == [fl |-> FALSE, n |-> n, d |-> 1]
PyFloat(n, d) == Norm(TRUE, n, d)

Add(a, b) == Norm(a.fl \/ b.fl, a.n * b.d + b.n * a.d, a.d * b.d)
Sub(a, b) == Norm(a.fl \/ b.fl, a.n * b.d - b.n * a.d, a.d * b.d)
Mul(a, b) == Norm(a.fl \/ b.fl, a.n * b.n, a.d * b.d)
\* Python's true division: always a float; the caller tests b for zero first
TrueDiv(a, b) == Norm(TRUE, a.n * b.d, a.d * b.n)
Lt(a, b) == a.n * b.d < b.n * a.d
IsZero(a) == a.n = 0
\* int(x): truncation toward zero
int(x) == PyInt(IF x.n >= 0 THEN x.n \div x.d ELSE -((-x.n) \div x.d))
\* str(x) of a number: the decimal literal, "5" for an int and "5.0" for a float
str(x) == [lit |-> IF x.fl THEN "float" ELSE "int", n |-> x.n, d |-> x.d]

pi == PyFloat(1, 1)
degrees(x) == Mul(x, PyFloat(180, 1))

\* ---------------------------------------------------------------- chart.py
Point(x, y) == [x |-> x, y |-> y]

\* A generator object of progression(): the domain it closes over, the local
\* `current`, and whether the body has run to its first yield.
progression_stale(domain) ==
    IF frame # <<>> /\ frame[1].wedges.domain = domain THEN frame[1].wedges
    ELSE [domain |-> domain, current |-> 0, started |-> FALSE]

progression(domain) == [domain |-> domain, current |-> 0, started |-> FALSE]

next_skip(g) ==
    LET cur == IF g.started THEN (g.current + 2) % Len(g.domain) ELSE 0
    IN  IF Len(g.domain) = 0
        THEN [ok |-> FALSE, err |-> "IndexError", gen |-> g]
        ELSE [ok |-> TRUE, value |-> g.domain[cur + 1],
              gen |-> [g EXCEPT !.current = cur, !.started = TRUE]]

\* next(g): resume the generator to its next yield
next(g) ==
    LET cur == IF g.started THEN (g.current + 1) % Len(g.domain) ELSE 0
    IN  IF Len(g.domain) = 0
        THEN [ok |-> FALSE, err |-> "IndexError", gen |-> g]
        ELSE [ok |-> TRUE, value |-> g.domain[cur + 1],
              gen |-> [g EXCEPT !.current = cur, !.started = TRUE]]

\* --------------------------------------------- xml.etree.ElementTree values
NoText == [kind |-> "none"]
Text(s) == [kind |-> "str", s |-> s]
Element(tag) == [tag |-> tag, attrib |-> <<>>, text |-> NoText, children |-> <<>>]
set(el, k, v) == [el EXCEPT !.attrib = (k :> v) @@ el.attrib]
append_first(el, child) == [el EXCEPT !.children = <<child>> \o @]

append(el, child) == [el EXCEPT !.children = Append(@, child)]

SetText(el, t) == [el EXCEPT !.text = t]

\* --------------------------------------------------------------- donuts.py
Defaults ==
    [_size |-> PyInt(1000),
     border_size |-> PyFloat(1, 100), hole_size |-> PyFloat(3, 10),
     title_size |-> PyFloat(8, 100), label_size |-> PyFloat(8, 100),
     border_color |-> "white", hole_color |-> "silver",
     title_color |-> "black", label_color |-> "white",
     wedge_colors |-> <<"red", "blue", "green", "orange",
                        "teal", "brown", "magenta", "cyan">>,
     init_angle |-> TrueDiv(Sub(PyInt(0), pi), PyInt(2))]

\* names hasattr finds on the object through its class before __init__ has
\* set anything, and setattr accepts any value for
ClassAttrs == {"generate", "__init__", "__doc__"}

\* __init__: the defaults, then every keyword that names an attribute the
\* object already has replaces it (setattr), and any other keyword is
\* skipped.  hasattr finds the attributes __init__ has set by line 81 and
\* those of the class.  (Keywords whose setattr raises, such as __class__,
\* are not among those drawn; fontspec is set after the loop, line 100.)
DonutStyle(kwargs) ==
    [k \in DOMAIN Defaults \cup (DOMAIN kwargs \cap ClassAttrs) |->
        IF k \in DOMAIN kwargs THEN kwargs[k] ELSE Defaults[k]]

\* fontspec.format(cls=, size=, color=)
fontspec(cls, size, color) == [cls |-> cls, size |-> str(size), color |-> color]

mk_wedge(weight, name, dx, dy, rotate) ==
    <<weight, name, [dx |-> dx, dy |-> dy, rotate |-> rotate]>>

\* opts.get(key, default)
get(opts, key, default) == IF key \in DOMAIN opts THEN opts[key] ELSE default

\* sum([item[0] for item in dataset])
RECURSIVE sum(_)
sum(dataset) ==
    IF dataset = <<>> THEN PyInt(0)
    ELSE Add(sum(SubSeq(dataset, 1, Len(dataset) - 1)), dataset[Len(dataset)][1])

\* c + r*cos(a) or c + r*sin(a), kept symbolic
Polar(c, r, fn, a) == [c |-> c, r |-> r, fn |-> fn, a |-> a]
OnCircle(center, r, a) ==
    Point(Polar(center.x, r, "cos", a), Polar(center.y, r, "sin", a))

\* generate, lines 146-175: the locals as the loop is entered
GenSetup(self, dataset, title) ==
    LET r == int(TrueDiv(self._size, PyInt(2)))
        center == Point(r, r)
        r_hole == TrueDiv(Mul(self.hole_size, self._size), PyInt(2))
        svg == set(Element("svg"), "viewBox",
                   <<str(PyInt(0)), str(PyInt(0)), str(self._size), str(self._size)>>)
        chart == set(set(Element("g"), "stroke", self.border_color),
                     "stroke-width", str(Mul(self.border_size, self._size)))
        styles == SetText(Element("style"),
                    [kind |-> "css",
                     rules |-> <<fontspec("title", Mul(self.title_size, self._size),
                                          self.title_color),
                                 fontspec("label", Mul(self.label_size, self._size),
                                          self.label_color)>>])
    IN  [wedges |-> progression(self.wedge_colors),
         r |-> r, center |-> center,
         total |-> sum(dataset),
         r_hole |-> r_hole,
         r_text |-> TrueDiv(Add(r, r_hole), PyInt(2)),
         svg |-> svg,
         chart |-> append(chart, styles),
         init_angle |-> self.init_angle,
         prior_angle |-> self.init_angle,
         start |-> OnCircle(center, r, self.init_angle),
         cum_weight |-> PyInt(0),
         title |-> title,
         done |-> 0,
         err |-> ""]

\* weight > total/2, line 184
LargeArc_geq(weight, total) ==
    IF ~Lt(weight, TrueDiv(total, PyInt(2))) THEN 1 ELSE 0

LargeArc(weight, total) ==
    IF Lt(TrueDiv(total, PyInt(2)), weight) THEN 1 ELSE 0

\* init_angle + (cum_weight/total) * 2*pi, line 182 (total is not zero)
EndAngle_fromPrior(L, cum_weight) ==
    Add(L.prior_angle, Mul(Mul(TrueDiv(cum_weight, L.total), PyInt(2)), pi))

EndAngle(L, cum_weight) ==
    Add(L.init_angle, Mul(Mul(TrueDiv(cum_weight, L.total), PyInt(2)), pi))

\* lines 200-203: the label's rotation, in degrees
TextAngle_closed(rotate, bisect) ==
    LET text_angle == IF rotate THEN degrees(bisect) ELSE PyInt(0)
    IN  IF ~(~Lt(text_angle, PyInt(-90)) /\ ~Lt(PyInt(90), text_angle))
        THEN Sub(text_angle, PyInt(180))
        ELSE text_angle

TextAngle(rotate, bisect) ==
    LET text_angle == IF rotate THEN degrees(bisect) ELSE PyInt(0)
    IN  IF ~(Lt(PyInt(-90), text_angle) /\ Lt(text_angle, PyInt(90)))
        THEN Sub(text_angle, PyInt(180))
        ELSE text_angle

\* The division of line 182 raises when total is zero
DivRaises_never(total) == FALSE

DivRaises(total) == IsZero(total)

\* generate, lines 177-215: one pass of the loop body over wedge w, from
\* locals L to the locals after it (err set when the pass raises)
WedgeIter(self, L, w) ==
    LET weight == w[1]
        name == w[2]
        opts == w[3]
        cum_weight == Add(L.cum_weight, weight)
    IN  IF DivRaises(L.total)
        THEN [L EXCEPT !.cum_weight = cum_weight, !.err = "ZeroDivisionError"]
        ELSE
        LET angle == EndAngle(L, cum_weight)
            finish == OnCircle(L.center, L.r, angle)
            lg == LargeArc(weight, L.total)
            nx == next(L.wedges)
            bisect == TrueDiv(Add(L.prior_angle, angle), PyInt(2))
            dx == [at |-> Polar(L.center.x, L.r_text, "cos", bisect),
                   nudge |-> Mul(get(opts, "dx", PyInt(0)), self._size)]
            dy == [at |-> Polar(L.center.y, L.r_text, "sin", bisect),
                   nudge |-> Mul(get(opts, "dy", PyInt(0)), self._size)]
            rotate == get(opts, "rotate", FALSE)
            text_angle == TextAngle(rotate, bisect)
        IN  IF ~nx.ok
            THEN [L EXCEPT !.cum_weight = cum_weight, !.wedges = nx.gen,
                           !.err = nx.err]
            ELSE
            LET wedge == set(set(Element("path"), "d",
                                 [c |-> L.center, r |-> L.r, large |-> lg,
                                  p1 |-> L.start, p2 |-> finish]),
                             "fill", nx.value)
                label == SetText(
                           set(set(set(set(Element("text"), "x", str(PyInt(0))),
                                       "y", str(PyInt(0))),
                                   "class", "label"),
                               "transform",
                               [dx |-> dx, dy |-> dy, rotate |-> str(text_angle)]),
                           Text(name))
                item == append(append(Element("g"), wedge), label)
            IN  [L EXCEPT !.cum_weight = cum_weight,
                          !.wedges = nx.gen,
                          !.chart = append(L.chart, item),
                          !.start = finish,
                          !.prior_angle = angle,
                          !.done = L.done + 1]

\* the passes of the for loop of line 177 from wedge i on; a pass that
\* raises ends the loop
RECURSIVE Passes(_, _, _, _)
Passes(self, L, dataset, i) ==
    IF i > Len(dataset) \/ L.err # "" THEN L
    ELSE Passes(self, WedgeIter(self, L, dataset[i]), dataset, i + 1)

\* for weight, name, opts in dataset: ..., lines 177-215
Loop(self, L, dataset) == Passes(self, L, dataset, 1)

\* generate, lines 217-236: the hole group, and the svg returned
GenFinish(self, L) ==
    LET hole == set(set(set(set(Element("circle"), "cx", str(L.center.x)),
                            "cy", str(L.center.y)),
                        "r", str(int(TrueDiv(Mul(self.hole_size, self._size), PyInt(2))))),
                    "fill", self.hole_color)
        label == SetText(set(set(set(Element("text"), "x", str(L.center.x)),
                                 "y", str(L.center.y)),
                             "class", "title"),
                         Text(L.title))
        item == append(append(Element("g"), hole), label)
        chart == IF Lt(PyInt(0), self.hole_size) THEN append(L.chart, item)
                 ELSE L.chart
    IN  append(L.svg, chart)

\* generate(dataset, title): the locals as the call leaves, and what it
\* hands the caller: the svg element, or the exception raised
generate(self, dataset, title) ==
    LET L == Loop(self, GenSetup(self, dataset, title), dataset)
    IN  [locals |-> L,
         ret |-> IF L.err = "" THEN [ok |-> TRUE, svg |-> GenFinish(self, L)]
                 ELSE [ok |-> FALSE, err |-> L.err]]

\* --------------------------------------------------------------- canvas.py
None == [none |-> TRUE]

\* Canvas.__init__: the object, and the heap with its root svg element added
Canvas(h, width, height, units, px_scale) ==
    LET w == Mul(px_scale, width)
        ht == Mul(px_scale, height)
        root == set(set(set(set(set(Element("svg"),
                    "xmlns", "http://www.w3.org/2000/svg"),
                    "version", "1.1"),
                    "width", [num |-> str(width), units |-> units]),
                    "height", [num |-> str(height), units |-> units]),
                    "viewBox", <<str(PyInt(0)), str(PyInt(0)), str(w), str(ht)>>)
    IN  [heap |-> Append(h, root),
         self |-> [width |-> w, height |-> ht, svg |-> Len(h) + 1]]

\* copy.deepcopy(svg): a new object for the element and for every element
\* under it, with the same tag, attributes and text
RECURSIVE deepcopy(_, _), CopyChildren(_, _, _, _)
deepcopy_alias(h, id) == [heap |-> h, id |-> id]

deepcopy(h, id) ==
    LET new == Len(h) + 1
        r == CopyChildren(Append(h, [h[id] EXCEPT !.children = <<>>]),
                          h[id].children, 1, <<>>)
    IN  [heap |-> [r.heap EXCEPT ![new].children = r.ids], id |-> new]

CopyChildren(h, kids, i, ids) ==
    IF i > Len(kids) THEN [heap |-> h, ids |-> ids]
    ELSE LET c == deepcopy(h, kids[i])
         IN  CopyChildren(c.heap, kids, i + 1, Append(ids, c.id))

\* [int(i) for i in svg.attrib['viewBox'].split()], lines 118 and 123
ViewBox(attrib) ==
    IF "viewBox" \notin DOMAIN attrib THEN [ok |-> FALSE, err |-> "KeyError"]
    ELSE IF \E i \in DOMAIN attrib.viewBox : attrib.viewBox[i].lit # "int"
    THEN [ok |-> FALSE, err |-> "ValueError"]
    ELSE [ok |-> TRUE,
          viewbox |-> [i \in DOMAIN attrib.viewBox |-> PyInt(attrib.viewBox[i].n)]]

\* a * b / c of lines 119 and 124: the other extent from the viewBox ratio
Scaled_swapped(a, b, c) ==
    IF IsZero(b) THEN [ok |-> FALSE, err |-> "ZeroDivisionError"]
    ELSE [ok |-> TRUE, value |-> TrueDiv(Mul(a, c), b)]

Scaled(a, b, c) ==
    IF IsZero(c) THEN [ok |-> FALSE, err |-> "ZeroDivisionError"]
    ELSE [ok |-> TRUE, value |-> TrueDiv(Mul(a, b), c)]

\* if svg.tag != 'svg': raise ValueError, line 108
NotSvg_unchecked(h, svg) == FALSE

NotSvg(h, svg) == h[svg].tag # "svg"

\* lines 115-119: width given
WidthPart(h, svg, graphic, width, height) ==
    IF width = None THEN [ok |-> TRUE, heap |-> h]
    ELSE LET h1 == [h EXCEPT ![graphic] = set(@, "width", str(width))]
             vb == ViewBox(h1[svg].attrib)
             ht == Scaled(width, vb.viewbox[4], vb.viewbox[3])
         IN  IF height # None THEN [ok |-> TRUE, heap |-> h1]
             ELSE IF ~vb.ok THEN [ok |-> FALSE, err |-> vb.err, heap |-> h1]
             ELSE IF ~ht.ok THEN [ok |-> FALSE, err |-> ht.err, heap |-> h1]
             ELSE [ok |-> TRUE,
                   heap |-> [h1 EXCEPT ![graphic] = set(@, "height", str(ht.value))]]

\* lines 120-124: height given
HeightPart(h, svg, graphic, width, height) ==
    IF height = None THEN [ok |-> TRUE, heap |-> h]
    ELSE LET h1 == [h EXCEPT ![graphic] = set(@, "height", str(height))]
             vb == ViewBox(h1[svg].attrib)
             wd == Scaled(height, vb.viewbox[3], vb.viewbox[4])
         IN  IF width # None THEN [ok |-> TRUE, heap |-> h1]
             ELSE IF ~vb.ok THEN [ok |-> FALSE, err |-> vb.err, heap |-> h1]
             ELSE IF ~wd.ok THEN [ok |-> FALSE, err |-> wd.err, heap |-> h1]
             ELSE [ok |-> TRUE,
                   heap |-> [h1 EXCEPT ![graphic] = set(@, "width", str(wd.value))]]

\* Canvas.add_graphic(svg, x, y, width, height) on heap h: the outcome and
\* the heap it leaves.  When it raises, the copy it made is no longer
\* referenced and is gone with the call.
add_graphic_early(h, self, svg, x, y, width, height) ==
    IF NotSvg(h, svg) THEN [ok |-> FALSE, err |-> "ValueError", heap |-> h]
    ELSE
    LET c == deepcopy(h, svg)
        graphic == c.id
        h1 == [c.heap EXCEPT ![graphic] = set(set(@, "x", str(x)), "y", str(y)),
                             ![self.svg].children = Append(@, graphic)]
        w == WidthPart(h1, svg, graphic, width, height)
        g == HeightPart(w.heap, svg, graphic, width, height)
    IN  IF ~w.ok THEN [ok |-> FALSE, err |-> w.err, heap |-> w.heap]
        ELSE IF ~g.ok THEN [ok |-> FALSE, err |-> g.err, heap |-> g.heap]
        ELSE [ok |-> TRUE, err |-> "", heap |-> g.heap]

add_graphic(h, self, svg, x, y, width, height) ==
    IF NotSvg(h, svg) THEN [ok |-> FALSE, err |-> "ValueError", heap |-> h]
    ELSE
    LET c == deepcopy(h, svg)
        graphic == c.id
        h1 == [c.heap EXCEPT ![graphic] = set(set(@, "x", str(x)), "y", str(y))]
        w == WidthPart(h1, svg, graphic, width, height)
        g == HeightPart(w.heap, svg, graphic, width, height)
    IN  IF ~w.ok THEN [ok |-> FALSE, err |-> w.err, heap |-> SubSeq(w.heap, 1, Len(h))]
        ELSE IF ~g.ok THEN [ok |-> FALSE, err |-> g.err, heap |-> SubSeq(g.heap, 1, Len(h))]
        ELSE [ok |-> TRUE, err |-> "",
              heap |-> [g.heap EXCEPT ![self.svg].children = Append(@, graphic)]]

\* the element id of heap h with everything under it, as one value
RECURSIVE Tree(_, _)
Tree(h, id) ==
    [tag |-> h[id].tag, attrib |-> h[id].attrib, text |-> h[id].text,
     children |-> [i \in DOMAIN h[id].children |-> Tree(h, h[id].children[i])]]

\* ET.tostring(element, 'utf-8'): a bytes object, the element serialised as
\* it stands, with no declaration before it
tostring(h, id) == [type |-> "bytes", tree |-> Tree(h, id), indent |-> ""]

\* minidom.parseString(content).toprettyxml(indent): a str, minidom's
\* declaration and then the parsed tree laid out one element a line
toprettyxml(content, indent) ==
    <<[type |-> "str", xml |-> "<?xml version=\"1.0\" ?>"],
      [type |-> "str", tree |-> content.tree, indent |-> indent]>>

\* open(filename, 'w'): an empty text file
open == <<>>

\* f.write(s) on a file opened in text mode: s is appended if it is a str;
\* bytes raise TypeError and leave the file as it was
fwrite(f, s) ==
    IF s.type = "str" THEN [ok |-> TRUE, f |-> Append(f, s)]
    ELSE [ok |-> FALSE, err |-> "TypeError", f |-> f]

\* the three writes of lines 146-148; the first to raise ends the block
RECURSIVE WriteAll(_, _)
WriteAll(f, parts) ==
    IF parts = <<>> THEN [ok |-> TRUE, f |-> f]
    ELSE LET w == fwrite(f, Head(parts))
         IN  IF w.ok THEN WriteAll(w.f, Tail(parts)) ELSE w

\* Canvas.write(filename, doctype): the outcome, and the file as the with
\* block leaves it when it closes
write(h, self, doctype) ==
    LET content == tostring(h, self.svg)
        xmldecl == [type |-> "str", xml |-> "<?xml version=\"1.0\" standalone=\"no\"?>"]
        dtd == [type |-> "str",
                xml |-> "<!DOCTYPE svg PUBLIC \"-//W3C//DTD SVG 1.1//EN\" \"http://www.w3.org/Graphics/SVG/1.1/DTD/svg11.dtd\">"]
    IN  IF doctype
        THEN WriteAll(open, <<xmldecl, dtd, content>>)
        ELSE WriteAll(open, toprettyxml(content, "  "))

\* ------------------------------------------------------------ the callers
\* keyword sets the callers construct styles with; start_angle is the
\* keyword of examples/ex-custom.py
StyleKwargs ==
    { <<>>,
      [hole_size |-> PyInt(0), wedge_colors |-> <<"red">>],
      [wedge_colors |-> <<"#909090", "#a0a0a0">>, init_angle |-> PyInt(0),
       start_angle |-> PyInt(0)],
      [wedge_colors |-> <<>>, init_angle |-> pi],
      [hole_size |-> PyFloat(-1, 10)] }

\* the wedges a caller's dataset is made of: raw tuples as in
\* examples/ex-basic.py and ex-labels.py, and one built with mk_wedge
WedgeInputs ==
    { <<PyInt(0), "Fee", <<>> >>,
      <<PyInt(1), "Fi", <<>> >>,
      <<PyInt(2), "Fo", [rotate |-> TRUE, dx |-> PyFloat(1, 2)]>>,
      <<PyInt(-1), "Fum", [rotate |-> TRUE]>>,
      mk_wedge(PyInt(1), "smell", PyInt(0), PyInt(0), FALSE) }
Datasets == UNION { [1..n -> WedgeInputs] : n \in 0..MaxWedges }
\* datasets of other charts the caller draws with the same style
OtherData ==
    { << <<PyInt(25), "Fi", <<>> >> >>,
      << <<PyInt(0), "Fo", <<>> >> >> }
Titles == {"", "Giant"}

\* ET.Element objects built from a returned tree: one heap object for the
\* element and for every element under it
RECURSIVE Alloc(_, _), AllocChildren(_, _, _, _)
Alloc(h, el) ==
    LET new == Len(h) + 1
        r == AllocChildren(Append(h, [el EXCEPT !.children = <<>>]),
                           el.children, 1, <<>>)
    IN  [heap |-> [r.heap EXCEPT ![new].children = r.ids], id |-> new]

AllocChildren(h, kids, i, ids) ==
    IF i > Len(kids) THEN [heap |-> h, ids |-> ids]
    ELSE LET c == Alloc(h, kids[i])
         IN  AllocChildren(c.heap, kids, i + 1, Append(ids, c.id))

\* no canvas: the state of the canvas variables while only charts are drawn
NoCanvas ==
    /\ heap = <<>>
    /\ page = None
    /\ lastOp = [op |-> "none"]
    /\ nadds = 0

\* no thread is in a generate call
Threads == {1, 2}
Idle == [pc |-> "idle"]
NoCalls == calls = [t \in Threads |-> Idle]

\* no file has been written
NoFile == out = None

Init ==
    /\ \E kw \in StyleKwargs : keywords = kw /\ style = DonutStyle(kw)
    /\ data \in Datasets
    /\ first = <<>>
    /\ last = <<>>
    /\ frame = <<>>
    /\ between = FALSE
    /\ NoCanvas
    /\ NoCalls
    /\ NoFile

\* chart = style.generate(dataset, title=title)
Generate(dataset, title) ==
    LET g == generate(style, dataset, title)
        rec == [dataset |-> dataset, title |-> title, ret |-> g.ret]
    IN  /\ last' = <<rec>>
        /\ frame' = <<g.locals>>
        /\ first' = IF first = <<>> /\ dataset = data THEN <<rec>> ELSE first
        /\ between' = (between \/ (first # <<>> /\ dataset # data))
        /\ UNCHANGED <<style, data>>
        /\ UNCHANGED canvasVars
        /\ UNCHANGED restVars

GenerateData == \E title \in Titles : Generate(data, title)
GenerateOther == \E d \in OtherData : Generate(d, "")

Next ==
    \/ GenerateData
    \/ GenerateOther

Spec == Init /\ [][Next]_vars

\* ------------------------------------------------ the callers of the canvas
\* The page of examples/ex-canvas.py, and the drawable the caller holds: a
\* chart returned by generate, or an svg element of the caller's own making
\* with the viewBox given (None: no viewBox attribute)
PageId == 1
SourceId == 2
InnerId == 3
HandMade(viewBox) ==
    LET svg == IF viewBox = None THEN Element("svg")
               ELSE set(Element("svg"), "viewBox", viewBox)
    IN  append(svg, set(Element("g"), "stroke", "white"))
Tokens(a, b, c, d) == <<str(a), str(b), str(c), str(d)>>
Sources ==
    { generate(DonutStyle(<<>>), <<>>, "Giants").ret.svg,
      HandMade(Tokens(PyInt(0), PyInt(0), PyInt(200), PyInt(100))),
      HandMade(Tokens(PyInt(0), PyInt(0), PyInt(0), PyInt(100))),
      HandMade(Tokens(PyInt(0), PyInt(0), PyFloat(15, 1), PyFloat(15, 2))),
      HandMade(None) }
Positions == { <<PyInt(0), PyInt(0)>>, <<PyInt(7), PyInt(2)>> }
Widths == { None, PyInt(5) }
Heights == { None, PyInt(3) }

CanvasInit ==
    /\ keywords = <<>>
    /\ style = DonutStyle(<<>>)
    /\ data = <<>>
    /\ first = <<>>
    /\ last = <<>>
    /\ frame = <<>>
    /\ between = FALSE
    /\ \E src \in Sources :
          LET c == Canvas(<<>>, PyInt(10), PyInt(5), "cm", PyInt(1))
          IN  /\ heap = Alloc(c.heap, src).heap
              /\ page = c.self
    /\ lastOp = [op |-> "none"]
    /\ nadds = 0
    /\ NoCalls
    /\ NoFile

\* page.add_graphic(svg, x=x, y=y, width=width, height=height)
AddGraphic(svg, x, y, width, height) ==
    LET r == add_graphic(heap, page, svg, x, y, width, height)
    IN  /\ nadds < MaxAdds
        /\ heap' = r.heap
        /\ lastOp' = [op |-> "add_graphic", svg |-> svg, x |-> x, y |-> y,
                      width |-> width, height |-> height,
                      ok |-> r.ok, err |-> r.err]
        /\ nadds' = nadds + 1
        /\ UNCHANGED page
        /\ UNCHANGED donutVars
        /\ UNCHANGED restVars

AddSource ==
    \E pos \in Positions, width \in Widths, height \in Heights :
        AddGraphic(SourceId, pos[1], pos[2], width, height)

AddInner ==
    \E width \in Widths, height \in Heights :
        AddGraphic(InnerId, PyInt(0), PyInt(0), width, height)

\* page.add_graphic(page.svg, ...): the canvas's own root as the drawable
AddPage ==
    \E width \in Widths, height \in Heights :
        AddGraphic(PageId, PyInt(0), PyInt(0), width, height)

\* element.set(key, value) by the caller on an element of its own drawable
CallerSet(id, key, value) ==
    /\ heap' = [heap EXCEPT ![id] = set(@, key, value)]
    /\ lastOp' = [op |-> "set", id |-> id]
    /\ UNCHANGED <<page, nadds>>
    /\ UNCHANGED donutVars
    /\ UNCHANGED restVars

SetSource == CallerSet(SourceId, "width", str(PyInt(9)))
SetInner == CallerSet(InnerId, "stroke", "black")

\* page.write(filename, doctype=doctype)
Write(doctype) ==
    LET w == write(heap, page, doctype)
    IN  /\ out' = w.f
        /\ lastOp' = [op |-> "write", doctype |-> doctype, ok |-> w.ok,
                      err |-> IF w.ok THEN "" ELSE w.err]
        /\ UNCHANGED <<heap, page, nadds, keywords, calls>>
        /\ UNCHANGED donutVars

WritePage == \E doctype \in BOOLEAN : Write(doctype)

CanvasNext ==
    \/ AddSource
    \/ AddInner
    \/ AddPage
    \/ SetSource
    \/ SetInner

CanvasSpec == CanvasInit /\ [][CanvasNext]_vars

\* the script of examples/ex-canvas.py: graphics are added to the page and
\* the page is written, with the caller changing its drawable in between
PageNext ==
    \/ AddSource
    \/ SetInner
    \/ WritePage

PageSpec == CanvasInit /\ [][PageNext]_vars

\* ------------------------------------------ two calls at once on one style
\* the wedges of the dataset the threads share
ShortWedges ==
    { <<PyInt(1), "Fi", <<>> >>,
      <<PyInt(2), "Fo", [rotate |-> TRUE, dx |-> PyFloat(1, 2)]>> }
ShortData == UNION { [1..n -> ShortWedges] : n \in 0..MaxWedges }

ThreadInit ==
    /\ \E kw \in StyleKwargs : keywords = kw /\ style = DonutStyle(kw)
    /\ data \in ShortData
    /\ first = <<>>
    /\ last = <<>>
    /\ frame = <<>>
    /\ between = FALSE
    /\ NoCanvas
    /\ NoCalls
    /\ NoFile

\* the locals of the generate call thread t is in: each call has its own
Frame_shared(t) ==
    IF calls[1].pc = "loop"
    THEN [calls[t].L EXCEPT !.wedges = calls[1].L.wedges]
    ELSE calls[t].L

Frame(t) == calls[t].L

\* another thread is part way through its loop
Amid(t) == \E u \in Threads \ {t} : calls[u].pc = "loop" /\ calls[u].L.done > 0

\* thread t calls style.generate(dataset, title=title) and runs it to the
\* head of the loop (lines 146-175)
Enter(t, dataset, title) ==
    /\ calls[t].pc = "idle"
    /\ calls' = [calls EXCEPT ![t] =
                    [pc |-> "loop", dataset |-> dataset, title |-> title,
                     L |-> GenSetup(style, dataset, title), mixed |-> FALSE]]
    /\ UNCHANGED <<keywords, out>>
    /\ UNCHANGED donutVars
    /\ UNCHANGED canvasVars

\* thread t runs one pass of the loop (lines 177-215), and leaves the call
\* when the pass raises
Pass(t) ==
    /\ calls[t].pc = "loop"
    /\ Frame(t).done < Len(calls[t].dataset)
    /\ LET L == WedgeIter(style, Frame(t), calls[t].dataset[Frame(t).done + 1])
       IN  calls' = [calls EXCEPT ![t] =
                        IF L.err = ""
                        THEN [@ EXCEPT !.L = L, !.mixed = @ \/ Amid(t)]
                        ELSE [pc |-> "raised", dataset |-> @.dataset,
                              title |-> @.title, L |-> L,
                              mixed |-> @.mixed \/ Amid(t),
                              ret |-> [ok |-> FALSE, err |-> L.err]]]
    /\ UNCHANGED <<keywords, out>>
    /\ UNCHANGED donutVars
    /\ UNCHANGED canvasVars

\* thread t finds the dataset exhausted, adds the hole group and returns
\* (lines 217-236)
Leave(t) ==
    /\ calls[t].pc = "loop"
    /\ Frame(t).done = Len(calls[t].dataset)
    /\ calls' = [calls EXCEPT ![t] =
                    [pc |-> "returned", dataset |-> @.dataset,
                     title |-> @.title, L |-> Frame(t), mixed |-> @.mixed,
                     ret |-> [ok |-> TRUE, svg |-> GenFinish(style, Frame(t))]]]
    /\ UNCHANGED <<keywords, out>>
    /\ UNCHANGED donutVars
    /\ UNCHANGED canvasVars

EnterData == \E t \in Threads, title \in Titles : Enter(t, data, title)
EnterOther == \E t \in Threads, d \in OtherData : Enter(t, d, "")
PassAny == \E t \in Threads : Pass(t)
LeaveAny == \E t \in Threads : Leave(t)

ThreadNext ==
    \/ EnterData
    \/ EnterOther
    \/ PassAny
    \/ LeaveAny

ThreadSpec == ThreadInit /\ [][ThreadNext]_vars

\* ------------------------------------------- styles built from any keywords
\* keywords a caller may pass besides the documented ones: none, the chart
\* size under its attribute's name, names of the class, a name of nothing
Extras ==
    { <<>>,
      [_size |-> PyInt(500)],
      [generate |-> PyInt(1)],
      [__doc__ |-> "Giants"],
      [size |-> PyInt(500), generate |-> PyInt(1)] }
KeywordSets == { e @@ kw : e \in Extras, kw \in StyleKwargs }

\* self.generate(dataset, title=title): the attribute generate is looked up
\* on the object first, and an object's own attribute of that name, not
\* callable, raises TypeError
Invoke(self, dataset, title) ==
    IF "generate" \in DOMAIN self
    THEN [locals |-> None, ret |-> [ok |-> FALSE, err |-> "TypeError"]]
    ELSE generate(self, dataset, title)

StyleInit ==
    /\ keywords = <<>>
    /\ style = None
    /\ data \in ShortData
    /\ first = <<>>
    /\ last = <<>>
    /\ frame = <<>>
    /\ between = FALSE
    /\ NoCanvas
    /\ NoCalls
    /\ NoFile

\* style = donuts.DonutStyle(**kw)
Build ==
    /\ style = None
    /\ \E kw \in KeywordSets :
          /\ keywords' = kw
          /\ style' = DonutStyle(kw)
    /\ UNCHANGED <<data, first, last, frame, between, calls, out>>
    /\ UNCHANGED canvasVars

\* chart = style.generate(data, title=title)
Draw ==
    /\ style # None
    /\ \E title \in Titles :
          LET g == Invoke(style, data, title)
          IN  /\ last' = <<[dataset |-> data, title |-> title, ret |-> g.ret]>>
              /\ frame' = <<g.locals>>
    /\ UNCHANGED <<style, data, first, between>>
    /\ UNCHANGED canvasVars
    /\ UNCHANGED restVars

StyleNext ==
    \/ Build
    \/ Draw

StyleSpec == StyleInit /\ [][StyleNext]_vars

\* ------------------------------------------------- reading a returned svg
Called == last # <<>>
Rec == last[1]
Locals == frame[1]
Returned == Called /\ Rec.ret.ok
NWedges == Len(Rec.dataset)
Weight(i) == Rec.dataset[i][1]
Opts(i) == Rec.dataset[i][3]
ChartChildren == Rec.ret.svg.children[1].children
PathOf(i) == ChartChildren[i + 1].children[1]
LabelOf(i) == ChartChildren[i + 1].children[2]
StartAngle(i) == PathOf(i).attrib.d.p1.x.a
FinishAngle(i) == PathOf(i).attrib.d.p2.x.a
\* weights are integers in every dataset of the model
RECURSIVE Prefix(_, _)
Prefix(dataset, k) == IF k = 0 THEN 0 ELSE Prefix(dataset, k - 1) + dataset[k][1].n
Total == Prefix(Rec.dataset, NWedges)
NonNegative == \A i \in 1..NWedges : Weight(i).n >= 0
Palette == style.wedge_colors
\* the value of the rational x, in units of 1/(x.d * y.d), against y's
Same(x, y) == x.n * y.d = y.n * x.d
Leq(x, y) == x.n * y.d <= y.n * x.d
\* init_angle + (k/total) * 2 pi, in units of pi, for total > 0
TurnFrom(init, k, total) == [n |-> init.n * total + 2 * k * init.d, d |-> init.d * total]

\* C1: with total weight > 0 and a non-empty palette, generate returns one
\* wedge per dataset entry and the wedge at index i (zero-weight wedges
\* counted) is filled with wedge_colors[i mod len(wedge_colors)]
C1_ColorByIndex ==
    (Called /\ Total > 0 /\ Palette # <<>>) =>
        /\ Returned
        /\ Len(ChartChildren) >= NWedges + 1
        /\ \A i \in 1..NWedges :
              PathOf(i).attrib.fill = Palette[((i - 1) % Len(Palette)) + 1]

\* C1 witness: a returned chart of three wedges, one of weight zero, drawn
\* with a two-colour palette, so the third wedge wraps to the first colour
C1_Witness ==
    /\ Returned /\ Total > 0 /\ NWedges = 3 /\ Len(Palette) = 2
    /\ \E i \in 1..2 : Weight(i).n = 0
    /\ PathOf(3).attrib.fill = Palette[1]

\* C2 as claimed: generate on an empty dataset fails with an error and
\* returns no drawable
C2_EmptyFails ==
    (Called /\ Rec.dataset = <<>>) => ~Rec.ret.ok

\* C2 witness: a call on the empty dataset has returned an svg whose chart
\* group holds the style block, no wedge group, and the hole group exactly
\* when hole_size > 0
C2_Witness ==
    /\ Called /\ Rec.dataset = <<>> /\ Rec.ret.ok
    /\ Locals.err = "" /\ Locals.done = 0
    /\ ChartChildren[1].tag = "style"
    /\ Len(ChartChildren) = 2 /\ style.hole_size.n > 0
    /\ ChartChildren[2].children[1].tag = "circle"

\* C3: generate on a non-empty dataset whose weights are all zero raises
\* ZeroDivisionError in the first pass of the loop and returns no svg
C3_AllZeroFails ==
    (Called /\ NWedges > 0 /\ \A i \in 1..NWedges : Weight(i).n = 0) =>
        /\ ~Rec.ret.ok
        /\ Rec.ret.err = "ZeroDivisionError"
        /\ "svg" \notin DOMAIN Rec.ret
        /\ Locals.done = 0
        /\ Len(Locals.chart.children) = 1

\* C3 witness: a call on two or more zero-weight wedges has raised
C3_Witness ==
    /\ Called /\ NWedges >= 2 /\ \A i \in 1..NWedges : Weight(i).n = 0
    /\ ~Rec.ret.ok

\* C4: with total > 0 the large-arc flag of a wedge is 1 exactly when its
\* weight exceeds total/2; so one wedge holding the whole total has flag 1,
\* two equal wedges have flag 0, and with non-negative weights at most one
\* wedge has flag 1
C4_LargeArc ==
    (Returned /\ Total > 0 /\ Len(ChartChildren) >= NWedges + 1) =>
        /\ \A i \in 1..NWedges :
              PathOf(i).attrib.d.large = IF 2 * Weight(i).n > Total THEN 1 ELSE 0
        /\ NWedges = 1 => PathOf(1).attrib.d.large = 1
        /\ (NWedges = 2 /\ Weight(1).n = Weight(2).n) =>
              (PathOf(1).attrib.d.large = 0 /\ PathOf(2).attrib.d.large = 0)
        /\ NonNegative =>
              Cardinality({i \in 1..NWedges : PathOf(i).attrib.d.large = 1}) <= 1

\* C4 witness: a returned chart of non-negative weights where one wedge of
\* several has flag 1 and another, of smaller weight, has flag 0
C4_Witness ==
    /\ Returned /\ Total > 0 /\ NonNegative /\ NWedges >= 2
    /\ \E i, j \in 1..NWedges :
          /\ PathOf(i).attrib.d.large = 1
          /\ PathOf(j).attrib.d.large = 0 /\ Weight(j).n > 0

\* C5: with non-negative weights and total > 0, wedge k ends at
\* init_angle + (weights[0..k] summed / total) * 2 pi, taken from the running
\* cumulative weight; each wedge starts where the one before it ended, the
\* end angles never decrease, wedge k spans weight/total of a turn, and the
\* last wedge ends at init_angle + 2 pi
C5_Angles ==
    (Returned /\ Total > 0 /\ NonNegative /\ Len(ChartChildren) >= NWedges + 1) =>
        /\ \A k \in 1..NWedges :
              /\ Same(FinishAngle(k),
                      TurnFrom(style.init_angle, Prefix(Rec.dataset, k), Total))
              /\ StartAngle(k) = IF k = 1 THEN style.init_angle ELSE FinishAngle(k - 1)
              /\ Leq(StartAngle(k), FinishAngle(k))
              /\ Same(Sub(FinishAngle(k), StartAngle(k)),
                      [n |-> 2 * Weight(k).n, d |-> Total])
        /\ Same(Locals.prior_angle, TurnFrom(style.init_angle, 1, 1))
        /\ Locals.cum_weight = Locals.total
        /\ FinishAngle(NWedges) = Locals.prior_angle

\* C5 witness: a returned chart of three non-negative wedges, the middle one
\* of weight zero, the others of different weights
C5_Witness ==
    /\ Returned /\ Total > 0 /\ NonNegative /\ NWedges = 3
    /\ Weight(2).n = 0 /\ Weight(1).n > Weight(3).n /\ Weight(3).n > 0

\* the bisecting angle of wedge i in degrees: the midpoint of its start and
\* end angle, as a rational
BisectDeg(i) ==
    LET a == StartAngle(i)
        b == FinishAngle(i)
    IN  [n |-> 90 * (a.n * b.d + b.n * a.d), d |-> a.d * b.d]
Upright(i) == -90 * BisectDeg(i).d < BisectDeg(i).n /\ BisectDeg(i).n < 90 * BisectDeg(i).d
Rotated(i) == "rotate" \in DOMAIN Opts(i) /\ Opts(i).rotate

\* C6: a label's rotation is 0 when its rotate option is false or absent;
\* otherwise it is the wedge's bisecting angle in degrees, less 180 when
\* that angle is not strictly between -90 and 90
C6_Rotation ==
    (Returned /\ Len(ChartChildren) >= NWedges + 1) =>
        \A i \in 1..NWedges :
            LET rot == LabelOf(i).attrib.transform.rotate
                deg == BisectDeg(i)
            IN  IF ~Rotated(i) THEN rot = [lit |-> "int", n |-> 0, d |-> 1]
                ELSE IF Upright(i) THEN Same(rot, deg)
                ELSE Same(rot, [n |-> deg.n - 180 * deg.d, d |-> deg.d])

\* C6 witness: a returned chart with a rotated label whose bisecting angle
\* is outside (-90, 90) and was turned by 180, a rotated label left as it
\* is, and a label whose rotate option is absent
C6_Witness ==
    /\ Returned
    /\ \E i, j, k \in 1..NWedges :
          /\ Rotated(i) /\ ~Upright(i)
          /\ Same(LabelOf(i).attrib.transform.rotate,
                  [n |-> BisectDeg(i).n - 180 * BisectDeg(i).d, d |-> BisectDeg(i).d])
          /\ Rotated(j) /\ Upright(j)
          /\ "rotate" \notin DOMAIN Opts(k)

\* C10: two generate calls on the same style with the same dataset and title
\* return the same svg (or raise the same error), whatever calls came between
C10_Repeatable ==
    (first # <<>> /\ Called /\ Rec.dataset = first[1].dataset
        /\ Rec.title = first[1].title) => Rec.ret = first[1].ret

\* C10 witness: the dataset was drawn, another dataset was drawn after it, and
\* the first dataset was drawn again with the same title and returned a chart
\* of more wedges than one
C10_Witness ==
    /\ first # <<>> /\ between /\ Called
    /\ Rec.dataset = first[1].dataset /\ Rec.title = first[1].title
    /\ Rec.ret.ok /\ NWedges >= 2 /\ Len(Palette) >= 2

\* ------------------------------------------------------ reading the canvas
Kids(h) == h[page.svg].children
Added == lastOp.op = "add_graphic"
Arg == heap[lastOp.svg]
Newest == heap[Kids(heap)[Len(Kids(heap))]]
\* the ids of element id and of every element under it
RECURSIVE Under(_, _)
Under(h, id) ==
    {id} \cup UNION { Under(h, h[id].children[i]) : i \in DOMAIN h[id].children }
IntViewBox(el) ==
    /\ "viewBox" \in DOMAIN el.attrib
    /\ \A i \in DOMAIN el.attrib.viewBox : el.attrib.viewBox[i].lit = "int"
VbW(el) == el.attrib.viewBox[3].n
VbH(el) == el.attrib.viewBox[4].n
Has(el, k) == k \in DOMAIN el.attrib
FloatOf(lit, n, d) == lit.lit = "float" /\ lit.n * d = n * lit.d

\* C7: add_graphic on an svg element with viewBox '0 0 W H': only width
\* given (W not 0), the copy has that width and height width*H/W; only
\* height given (H not 0), that height and width height*W/H; both given,
\* both as passed; neither given, the copy has no width or height but what
\* the caller's element already had
C7_Extent ==
    (Added /\ Arg.tag = "svg" /\ IntViewBox(Arg)) =>
        LET w == lastOp.width
            ht == lastOp.height
        IN  /\ (w # None /\ ht = None /\ VbW(Arg) # 0) =>
                  /\ lastOp.ok
                  /\ Newest.attrib.width = str(w)
                  /\ FloatOf(Newest.attrib.height, w.n * VbH(Arg), VbW(Arg))
            /\ (w = None /\ ht # None /\ VbH(Arg) # 0) =>
                  /\ lastOp.ok
                  /\ Newest.attrib.height = str(ht)
                  /\ FloatOf(Newest.attrib.width, ht.n * VbW(Arg), VbH(Arg))
            /\ (w # None /\ ht # None) =>
                  /\ lastOp.ok
                  /\ Newest.attrib.width = str(w)
                  /\ Newest.attrib.height = str(ht)
            /\ (w = None /\ ht = None) =>
                  /\ lastOp.ok
                  /\ \A k \in {"width", "height"} :
                        /\ Has(Newest, k) <=> Has(Arg, k)
                        /\ Has(Newest, k) => Newest.attrib[k] = Arg.attrib[k]

\* C7 witness: only width 5 was given for a source with viewBox 0 0 200 100
\* and the copy's height is 2.5
C7_Witness ==
    /\ Added /\ lastOp.ok /\ lastOp.width = PyInt(5) /\ lastOp.height = None
    /\ IntViewBox(Arg) /\ VbW(Arg) = 200 /\ VbH(Arg) = 100
    /\ Newest.attrib.height = [lit |-> "float", n |-> 5, d |-> 2]

\* C8: add_graphic on an element whose tag is not svg raises ValueError
\* with nothing copied or appended: every element object, the canvas's
\* child list and the argument among them, is as it was
C8_NonSvgRejected ==
    [][(nadds' # nadds /\ heap[lastOp'.svg].tag # "svg") =>
          /\ ~lastOp'.ok
          /\ lastOp'.err = "ValueError"
          /\ heap' = heap]_vars

\* C8 witness: the canvas holds a graphic and the last call, on a g
\* element, raised ValueError
C8_Witness ==
    /\ Added /\ Arg.tag = "g" /\ ~lastOp.ok /\ lastOp.err = "ValueError"
    /\ Len(Kids(heap)) >= 1

\* C9: add_graphic leaves the caller's drawable as it was (each of its
\* elements, attributes and children alike); the canvas's children share no
\* element with it; and no step, add_graphic or the caller's own change of
\* its drawable, alters a graphic the canvas already holds
C9_IndependentCopy ==
    [][/\ nadds' # nadds =>
             \A id \in Under(heap, SourceId) : heap'[id] = heap[id]
       /\ \A i \in DOMAIN Kids(heap) :
             /\ i \in DOMAIN Kids(heap')
             /\ Kids(heap')[i] = Kids(heap)[i]
             /\ Tree(heap', Kids(heap')[i]) = Tree(heap, Kids(heap)[i])
       /\ \A i \in DOMAIN Kids(heap') :
             Under(heap', Kids(heap')[i]) \cap Under(heap', SourceId) = {}]_vars

\* C9 witness: the canvas holds two copies of the caller's drawable; the
\* caller changed the drawable and the element inside it after the first
\* was added, and the first copy still has neither change
C9_Witness ==
    /\ Len(Kids(heap)) = 2
    /\ Has(heap[SourceId], "width") /\ heap[InnerId].attrib.stroke = "black"
    /\ ~Has(heap[Kids(heap)[1]], "width")
    /\ heap[heap[Kids(heap)[1]].children[1]].attrib.stroke = "white"
    /\ Has(heap[Kids(heap)[2]], "width")
    /\ heap[Kids(heap)[2]].attrib.width = str(PyInt(9))

\* ------------------------------------------------------ reading the calls
Left(t) == calls[t].pc \in {"returned", "raised"}
\* the locals a call on the same arguments has after its first k passes
\* when it runs alone
AloneAfter(t, k) ==
    Passes(style, GenSetup(style, calls[t].dataset, calls[t].title),
           SubSeq(calls[t].dataset, 1, k), 1)
Alone(t) == generate(style, calls[t].dataset, calls[t].title)

\* C11: with the passes of two generate calls on one style interleaved in
\* any order, each call has at every pass the locals (colour cursor,
\* cumulative weight, running angle, boundary point, chart so far) it has
\* when run alone and returns or raises what it does alone; and no step
\* writes the style or the dataset
C11_Isolated ==
    /\ [](\A t \in Threads :
             /\ calls[t].pc = "loop" => calls[t].L = AloneAfter(t, calls[t].L.done)
             /\ Left(t) => (calls[t].ret = Alone(t).ret /\ calls[t].L = Alone(t).locals))
    /\ [][style' = style /\ data' = data /\ keywords' = keywords]_vars

\* C11 witness: both calls returned charts of two or more wedges coloured
\* from a palette of two or more, each having run a pass while the other
\* was part way through its loop
C11_Witness ==
    /\ \A t \in Threads :
          /\ calls[t].pc = "returned" /\ calls[t].mixed
          /\ Len(calls[t].dataset) >= 2
    /\ Len(style.wedge_colors) >= 2
    /\ calls[1].title # calls[2].title

\* ------------------------------------------------------ reading the style
\* the ten keyword names DonutStyle documents
Recognized ==
    {"border_size", "hole_size", "title_size", "label_size", "border_color",
     "hole_color", "title_color", "label_color", "wedge_colors", "init_angle"}
Without(kw, k) == [j \in DOMAIN kw \ {k} |-> kw[j]]
Unknown == DOMAIN keywords \ Recognized

\* C12 as claimed: a keyword of any name but the ten documented ones is
\* skipped: the style built (its ten options and its chart size) is the one
\* built without that keyword, and generate on it returns what it returns
\* on that one
C12_UnknownIgnored ==
    style # None =>
        \A k \in Unknown :
            /\ style = DonutStyle(Without(keywords, k))
            /\ Called =>
                  Rec.ret = Invoke(DonutStyle(Without(keywords, k)),
                                   Rec.dataset, Rec.title).ret

\* C12 witness: a style built with the keyword _size = 500 drew a chart
\* whose viewBox is 0 0 500 500, where the style built without it has
\* _size 1000
C12_Witness ==
    /\ style # None /\ "_size" \in Unknown /\ Unknown = {"_size"}
    /\ style._size = PyInt(500)
    /\ DonutStyle(Without(keywords, "_size"))._size = PyInt(1000)
    /\ Returned /\ NWedges >= 1
    /\ Rec.ret.svg.attrib.viewBox[3] = str(PyInt(500))

\* ------------------------------------------------------- reading the file
Wrote == lastOp.op = "write"
IsDecl(part) ==
    /\ part.type = "str" /\ "xml" \in DOMAIN part
    /\ part.xml = "<?xml version=\"1.0\" standalone=\"no\"?>"
IsDoctype(part) ==
    /\ part.type = "str" /\ "xml" \in DOMAIN part
    /\ part.xml = "<!DOCTYPE svg PUBLIC \"-//W3C//DTD SVG 1.1//EN\" \"http://www.w3.org/Graphics/SVG/1.1/DTD/svg11.dtd\">"
\* the part is the canvas tree as it stands, laid out with the indent given
IsTree(part, indent) ==
    /\ "tree" \in DOMAIN part /\ part.indent = indent
    /\ part.tree = Tree(heap, page.svg)

\* C13 as claimed: write with doctype=True completes and the file is the
\* XML declaration, the SVG 1.1 DOCTYPE, then the canvas tree serialised
\* without indentation; with doctype=False it completes and the file is the
\* tree pretty-printed (two-space indent) after minidom's declaration, with
\* no DOCTYPE; and write changes no element of the canvas
C13_WriteModes ==
    /\ [](Wrote =>
             /\ lastOp.ok
             /\ lastOp.doctype =>
                   /\ Len(out) = 3
                   /\ IsDecl(out[1]) /\ IsDoctype(out[2]) /\ IsTree(out[3], "")
             /\ ~lastOp.doctype =>
                   /\ Len(out) = 2
                   /\ IsTree(out[2], "  ")
                   /\ \A i \in DOMAIN out : ~IsDoctype(out[i]))
    /\ [][lastOp'.op = "write" => (heap' = heap /\ page' = page)]_vars

\* C13 witness: write with doctype=True on a canvas holding a graphic raised
\* TypeError, and the file holds the declaration and the DOCTYPE and no tree
C13_Witness ==
    /\ Wrote /\ lastOp.doctype /\ ~lastOp.ok /\ lastOp.err = "TypeError"
    /\ Len(Kids(heap)) >= 1
    /\ Len(out) = 2 /\ IsDecl(out[1]) /\ IsDoctype(out[2])

\* ------------------------------------------------ reading the chart group
Holed == style.hole_size.n > 0
Class(el, c) == "class" \in DOMAIN el.attrib /\ el.attrib.class = c
\* the elements of the tree el, itself included
RECURSIVE Elements(_)
Elements(el) ==
    {el} \cup UNION { Elements(el.children[i]) : i \in DOMAIN el.children }

\* C14: for a dataset of n wedges with total weight > 0, the chart group
\* returned holds the style block, then n wedge groups in dataset order,
\* each a path followed by a label text carrying that wedge's label, then
\* one hole group (circle, title text) exactly when hole_size > 0; when
\* hole_size <= 0 the chart holds no circle and no title
C14_Structure ==
    (Returned /\ Total > 0) =>
        /\ Len(Rec.ret.svg.children) = 1
        /\ Rec.ret.svg.children[1].tag = "g"
        /\ Len(ChartChildren) = 1 + NWedges + (IF Holed THEN 1 ELSE 0)
        /\ ChartChildren[1].tag = "style"
        /\ \A i \in 1..NWedges :
              /\ ChartChildren[i + 1].tag = "g"
              /\ Len(ChartChildren[i + 1].children) = 2
              /\ PathOf(i).tag = "path"
              /\ LabelOf(i).tag = "text" /\ Class(LabelOf(i), "label")
              /\ LabelOf(i).text = Text(Rec.dataset[i][2])
        /\ Holed =>
              LET hole == ChartChildren[NWedges + 2]
              IN  /\ hole.tag = "g" /\ Len(hole.children) = 2
                  /\ hole.children[1].tag = "circle"
                  /\ hole.children[2].tag = "text"
                  /\ Class(hole.children[2], "title")
                  /\ hole.children[2].text = Text(Rec.title)
        /\ Cardinality({el \in Elements(Rec.ret.svg) : el.tag = "circle"})
              = (IF Holed THEN 1 ELSE 0)
        /\ Cardinality({el \in Elements(Rec.ret.svg) : Class(el, "title")})
              = (IF Holed THEN 1 ELSE 0)

\* C14 witness: a style with hole_size 0 or less returned a titled chart of three
\* wedges with different labels: the chart group holds the style block and
\* three wedge groups, and nothing after them
C14_Witness ==
    /\ Returned /\ Total > 0 /\ NWedges = 3 /\ ~Holed
    /\ Rec.title = "Giant"
    /\ Len(ChartChildren) = 4
    /\ LabelOf(1).text # LabelOf(2).text /\ LabelOf(2).text # LabelOf(3).text
    /\ ChartChildren[4].children[1].tag = "path"

\* --------------------------------------------- reading a label's rotation
RotationOf(i) == LabelOf(i).attrib.transform.rotate
\* the rotation of label i is within -90 to 90 degrees
WithinUpright(i) ==
    -90 * RotationOf(i).d <= RotationOf(i).n /\ RotationOf(i).n <= 90 * RotationOf(i).d
\* the rotation of label i is strictly between 90 and 270 degrees
UpsideDown(i) ==
    90 * RotationOf(i).d < RotationOf(i).n /\ RotationOf(i).n < 270 * RotationOf(i).d

\* C15 as claimed: for every init_angle and every dataset of non-negative
\* weights with total > 0, the rotation of a label whose rotate option is
\* true lies within -90 to 90 degrees
C15_Upright ==
    (Returned /\ Total > 0 /\ NonNegative /\ Len(ChartChildren) >= NWedges + 1) =>
        \A i \in 1..NWedges : Rotated(i) => WithinUpright(i)

\* C15 witness: a style with init_angle 0 returned a chart of non-negative
\* weights in which a rotated label of a wedge of positive weight lies
\* strictly between 90 and 270 degrees, upside down
C15_Witness ==
    /\ Returned /\ Total > 0 /\ NonNegative
    /\ style.init_angle = PyInt(0)
    /\ \E i \in 1..NWedges :
          /\ Rotated(i) /\ Weight(i).n > 0
          /\ UpsideDown(i)
          /\ ~Upright(i)
          /\ Same(RotationOf(i),
                  [n |-> BisectDeg(i).n - 180 * BisectDeg(i).d, d |-> BisectDeg(i).d])

\* ------------------------------------------------ reading the child list
\* the add_graphic call with these arguments on this heap has a viewBox to
\* read and cannot: none, a token that is no integer literal, or a zero
\* extent to divide by
BadViewBox(h, svg, width, height) ==
    /\ (width = None) # (height = None)
    /\ \/ ~IntViewBox(h[svg])
       \/ width # None /\ VbW(h[svg]) = 0
       \/ height # None /\ VbH(h[svg]) = 0
\* the attributes add_graphic sets on the copy, whatever their value
Placed(width, height) ==
    {"x", "y"} \cup (IF width = None /\ height = None THEN {}
                     ELSE {"width", "height"})

\* C16: a step that is an add_graphic call fails exactly when the argument
\* is no svg element or a viewBox it must read is missing, not of integers,
\* or of zero extent; a call that succeeds appends one new element, a copy
\* of the argument apart from x, y, width and height, after the children
\* the root had; a call that fails leaves the child list as it was; every
\* earlier child and the root's own attributes and the canvas's width and
\* height stay as they were; no other step touches the child list; so the
\* children never outnumber the calls
C16_ChildList ==
    /\ [][IF nadds' # nadds
          THEN LET svg == lastOp'.svg
                   new == Kids(heap')[Len(Kids(heap'))]
               IN  /\ lastOp'.ok <=>
                         /\ heap[svg].tag = "svg"
                         /\ ~BadViewBox(heap, svg, lastOp'.width, lastOp'.height)
                   /\ lastOp'.ok =>
                         /\ Len(Kids(heap')) = Len(Kids(heap)) + 1
                         /\ new \notin DOMAIN heap
                         /\ heap'[new].tag = "svg"
                         /\ Tree(heap', new).children = Tree(heap, svg).children
                         /\ \A k \in DOMAIN heap[svg].attrib \ Placed(lastOp'.width, lastOp'.height) :
                               heap'[new].attrib[k] = heap[svg].attrib[k]
                         /\ heap'[new].attrib.x = str(lastOp'.x)
                         /\ heap'[new].attrib.y = str(lastOp'.y)
                   /\ ~lastOp'.ok => Kids(heap') = Kids(heap)
                   /\ SubSeq(Kids(heap'), 1, Len(Kids(heap))) = Kids(heap)
                   /\ \A i \in DOMAIN Kids(heap) :
                         Tree(heap', Kids(heap)[i]) = Tree(heap, Kids(heap)[i])
                   /\ heap'[page.svg].attrib = heap[page.svg].attrib
                   /\ page' = page
          ELSE Kids(heap') = Kids(heap)]_vars
    /\ [](Len(Kids(heap)) <= nadds)

\* C16 witness: after two calls the canvas holds one child: one call
\* succeeded, and the last call, on an svg element with only one of width
\* and height given, raised for the viewBox and left that child alone
C16_Witness ==
    /\ Added /\ nadds = 2 /\ Len(Kids(heap)) = 1
    /\ ~lastOp.ok /\ lastOp.err \in {"KeyError", "ValueError", "ZeroDivisionError"}
    /\ Arg.tag = "svg" /\ BadViewBox(heap, lastOp.svg, lastOp.width, lastOp.height)
    /\ heap[Kids(heap)[1]].tag = "svg"

====
